---- MODULE Spec2Model ----
(***************************************************************************)
(* Flit: SQL migrations applied once each, recorded in the "flits" table,  *)
(* with a pluggable concurrency guard (guard_mysql.go: GuardMySQL and the  *)
(* Migrator with its default mutexGuard).                                  *)
(*                                                                         *)
(* Every SQL statement is one atomic step against the database; the steps  *)
(* of concurrent Migrate calls interleave freely.  A statement issued on a *)
(* context that is already cancelled fails without reaching the server.    *)
(***************************************************************************)
EXTENDS Integers, Sequences, FiniteSets, TLC

\* ---------------------------------------------------------------- bounds
MaxCalls == 3      \* Migrate calls made in one behaviour
MaxFaults == 1     \* injected failures and cancellations in one behaviour

Procs == {1, 2}        \* concurrent callers of Migrate
Migrators == {1, 2}    \* values returned by New
Sessions == {1, 2}     \* database sessions (connections of the pool)
NoSession == 0
NoProc == 0

\* ------------------------------------------------------- migration files
\* File names are byte strings: "002", "01" and "1" (digits in ASCII).
Name002 == <<48, 48, 50>>
Name01 == <<48, 49>>
Name1 == <<49>>
Names == {Name002, Name01, Name1}

\* The file systems handed to New: name -> body.  In the second, "01" has
\* been edited and "002" has the body "01" had in the first.
DirFirst == [n \in {Name01} |-> "b1"]
DirSecond == [n \in Names |-> IF n = Name01 THEN "b2" ELSE IF n = Name002 THEN "b1" ELSE "b3"]
Dirs == {DirFirst, DirSecond}

\* hex(sha256(name)), first eight digits.
Sum(name) ==
  IF name = Name002 THEN "a1dd6837"
  ELSE IF name = Name01 THEN "938db8c9"
  ELSE "6b86b273"

\* Mutant: the checksum is taken of the file's content, not of its name.
LoadMigrationsByBody(dir) ==
  {[Sum |-> "sha-of-" \o dir[n], Name |-> n, SQL |-> dir[n]] : n \in DOMAIN dir}

\* loadMigrations: the map of migrations (keyed by Sum) read from a dir.
LoadMigrations(dir) ==
  {[Sum |-> Sum(n), Name |-> n, SQL |-> dir[n]] : n \in DOMAIN dir}

\* ------------------------------------------------------------- ordering
Min(a, b) == IF a < b THEN a ELSE b

RECURSIVE CompareFrom(_, _, _)
CompareFrom(a, b, i) ==
  IF i > Min(Len(a), Len(b))
  THEN (IF Len(a) < Len(b) THEN -1 ELSE IF Len(a) > Len(b) THEN 1 ELSE 0)
  ELSE IF a[i] < b[i] THEN -1
  ELSE IF a[i] > b[i] THEN 1
  ELSE CompareFrom(a, b, i + 1)

\* strings.Compare: byte-wise lexicographic comparison.
Compare(a, b) == CompareFrom(a, b, 1)

\* The comparison function handed to slices.SortFunc.
ByName(a, b) == Compare(a.Name, b.Name)

RECURSIVE InsertSorted(_, _)
InsertSorted(x, s) ==
  IF s = <<>> THEN <<x>>
  ELSE IF ByName(x, Head(s)) < 0 THEN <<x>> \o s
  ELSE <<Head(s)>> \o InsertSorted(x, Tail(s))

RECURSIVE SortRec(_, _)
SortRec(s, acc) ==
  IF s = <<>> THEN acc ELSE SortRec(Tail(s), InsertSorted(Head(s), acc))

\* Mutant: the pending slice is left in map-iteration order.
SortNone(s) == s

\* slices.SortFunc(pending, by name)
SortFunc(s) == SortRec(s, <<>>)

\* The orders in which ranging over a map can yield the elements of S.
Orders(S) ==
  {f \in [1..Cardinality(S) -> S] : \A i, j \in 1..Cardinality(S) : i # j => f[i] # f[j]}

\* Mutant: every discovered migration is pending, recorded or not.
PendingSetAll(migs, completed) == migs

\* Mutant: the test of slices.Contains is inverted.
PendingSetInverted(migs, completed) == {m \in migs : m.Sum \in completed}

\* The migrations whose checksum is not among the completed ones.
PendingSet(migs, completed) == {m \in migs : m.Sum \notin completed}

\* ---------------------------------------------------------------- errors
\* An error value is the sequence of the errors it wraps; nil is <<>>.
Nil == <<>>
Error(op, name) == <<[op |-> op, name |-> name]>>

\* Mutant: the release error is dropped when the critical section failed.
JoinMasking(e, r) == IF e # Nil THEN e ELSE r

\* errors.Join: nil when both are nil, else wraps the non-nil ones.
Join(e, r) == e \o r

\* ----------------------------------------------------------------- state
VARIABLES
  guardKind,    \* "mutex" | "mysql": the guard every New is given
  migrator,     \* caller -> the Migrator it calls Migrate on
  mutex,        \* Migrator -> holder of its mutexGuard, or NoProc
  lockOwner,    \* session holding MySQL's 'flit' lock, or NoSession
  lockCount,    \* how many times that session has acquired it
  tableExists,  \* the flits table has been created
  flits,        \* the rows (sum) of the flits table
  pc,           \* caller -> position in Migrate
  calls,        \* Migrate calls started
  cancelled,    \* caller -> ctx of the current call is done
  migrations,   \* caller -> result of loadMigrations
  conn,         \* caller -> session of its *sql.Conn, or NoSession
  pending,      \* caller -> the sorted pending slice
  idx,          \* caller -> position of the loop in pending
  applied,      \* caller -> result: names applied
  fErr,         \* caller -> error returned by the critical section
  err,          \* caller -> result: error
  panicking,    \* caller -> a panic is unwinding the call
  acquired,     \* caller -> GET_LOCK succeeded in this call
  entry,        \* caller -> rows of flits when the call entered its guard
  ran,          \* caller -> names whose body this call executed
  tracked,      \* caller -> flits statements of this call that ran on the server
  waited,       \* caller -> ctx was cancelled while blocked at guard entry
  blocked,      \* caller -> the guard was held when the call reached it
  queryErr,     \* caller -> the SELECT of this call failed
  re,           \* caller -> error of RELEASE_LOCK in GuardMySQL
  recFails,     \* name -> failed INSERTs of its sum after its body ran
  dupErr,       \* caller -> an INSERT of this call was rejected by the primary key
  inserted,     \* caller -> sums this call inserted into flits, in order
  execCount,    \* name -> times its body was executed on the database
  dupHits,      \* INSERTs rejected by the primary key
  faults        \* failures and cancellations injected so far

cfg == <<guardKind, migrator>>
locks == <<mutex, lockOwner, lockCount>>
db == <<tableExists, flits, execCount, dupHits>>
call == <<migrations, conn, pending, idx, applied, fErr, err, panicking>>
hist == <<acquired, entry, ran, tracked, waited>>
hist2 == <<blocked, queryErr, re, recFails>>
hist3 == <<dupErr, inserted>>
vars == <<cfg, locks, db, pc, calls, cancelled, call, hist, hist2, hist3, faults>>

Kind(p) == guardKind

\* The critical section: the function Migrate hands to its guard.
InCS(p) == pc[p] \in {"create", "select", "apply", "record"}

Active(p) == pc[p] \in {"conn", "guard", "create", "select", "apply", "record", "unguard", "close"}

\* Two callers share a guard scope.
Shared(p, q) ==
  \/ Kind(p) = "mysql" /\ Kind(q) = "mysql"
  \/ Kind(p) = "mutex" /\ migrator[p] = migrator[q]

Init ==
  /\ guardKind \in {"mutex", "mysql"}
  /\ migrator \in {[p \in Procs |-> 1], [p \in Procs |-> p]}
  /\ mutex = [m \in Migrators |-> NoProc]
  /\ lockOwner = NoSession
  /\ lockCount = 0
  /\ tableExists = FALSE
  /\ flits = {}
  /\ pc = [p \in Procs |-> "idle"]
  /\ calls = 0
  /\ cancelled = [p \in Procs |-> FALSE]
  /\ migrations = [p \in Procs |-> {}]
  /\ conn = [p \in Procs |-> NoSession]
  /\ pending = [p \in Procs |-> <<>>]
  /\ idx = [p \in Procs |-> 0]
  /\ applied = [p \in Procs |-> <<>>]
  /\ fErr = [p \in Procs |-> Nil]
  /\ err = [p \in Procs |-> Nil]
  /\ panicking = [p \in Procs |-> FALSE]
  /\ acquired = [p \in Procs |-> FALSE]
  /\ entry = [p \in Procs |-> {}]
  /\ ran = [p \in Procs |-> <<>>]
  /\ tracked = [p \in Procs |-> 0]
  /\ waited = [p \in Procs |-> FALSE]
  /\ blocked = [p \in Procs |-> FALSE]
  /\ queryErr = [p \in Procs |-> FALSE]
  /\ re = [p \in Procs |-> Nil]
  /\ recFails = [n \in Names |-> 0]
  /\ dupErr = [p \in Procs |-> FALSE]
  /\ inserted = [p \in Procs |-> <<>>]
  /\ execCount = [n \in Names |-> 0]
  /\ dupHits = 0
  /\ faults = 0

\* A failure of the environment (an SQL error, an unreadable file).
Fault == faults < MaxFaults /\ faults' = faults + 1
NoFault == faults' = faults

\* Where a call that starts now begins: fresh results and a fresh ctx.
Fresh(p) ==
  /\ calls' = calls + 1
  /\ cancelled' = [cancelled EXCEPT ![p] = FALSE]
  /\ pending' = [pending EXCEPT ![p] = <<>>]
  /\ idx' = [idx EXCEPT ![p] = 0]
  /\ applied' = [applied EXCEPT ![p] = <<>>]
  /\ fErr' = [fErr EXCEPT ![p] = Nil]
  /\ panicking' = [panicking EXCEPT ![p] = FALSE]
  /\ acquired' = [acquired EXCEPT ![p] = FALSE]
  /\ entry' = [entry EXCEPT ![p] = {}]
  /\ ran' = [ran EXCEPT ![p] = <<>>]
  /\ tracked' = [tracked EXCEPT ![p] = 0]
  /\ waited' = [waited EXCEPT ![p] = FALSE]
  /\ blocked' = [blocked EXCEPT ![p] = FALSE]
  /\ queryErr' = [queryErr EXCEPT ![p] = FALSE]
  /\ re' = [re EXCEPT ![p] = Nil]
  /\ dupErr' = [dupErr EXCEPT ![p] = FALSE]
  /\ inserted' = [inserted EXCEPT ![p] = <<>>]
  /\ UNCHANGED <<cfg, locks, db, conn, recFails>>

\* Migrate, up to loadMigrations returning the map.
MigrateLoad(p) ==
  /\ pc[p] \in {"idle", "done", "panicked"}
  /\ calls < MaxCalls
  /\ \E dir \in Dirs : migrations' = [migrations EXCEPT ![p] = LoadMigrations(dir)]
  /\ err' = [err EXCEPT ![p] = Nil]
  /\ pc' = [pc EXCEPT ![p] = "conn"]
  /\ NoFault
  /\ Fresh(p)

\* Migrate when fs.Glob or fs.ReadFile fails: returns at once.
MigrateLoadFails(p) ==
  /\ pc[p] \in {"idle", "done", "panicked"}
  /\ calls < MaxCalls
  /\ Fault
  /\ migrations' = [migrations EXCEPT ![p] = {}]
  /\ err' = [err EXCEPT ![p] = Error("load", <<>>)]
  /\ pc' = [pc EXCEPT ![p] = "done"]
  /\ Fresh(p)

\* The sessions m.db.Conn can hand out: those no call holds.  Sessions differ
\* only in whether they hold the lock, so with the lock free the lowest is taken.
FreeSessions == {s \in Sessions : \A q \in Procs : conn[q] # s}
Candidates ==
  IF lockOwner = NoSession
  THEN {s \in FreeSessions : \A t \in FreeSessions : s <= t}
  ELSE FreeSessions

\* The guard of caller p, on session s, is held by another caller.
GuardHeld(p, s) ==
  IF Kind(p) = "mutex" THEN mutex[migrator[p]] # NoProc
  ELSE lockOwner \notin {NoSession, s}

\* m.db.Conn(ctx): a session no other call holds.
DbConn(p) ==
  /\ pc[p] = "conn"
  /\ ~cancelled[p]
  /\ \E s \in Candidates :
       /\ conn' = [conn EXCEPT ![p] = s]
       /\ blocked' = [blocked EXCEPT ![p] = GuardHeld(p, s)]
  /\ pc' = [pc EXCEPT ![p] = "guard"]
  /\ NoFault
  /\ UNCHANGED <<cfg, locks, db, calls, cancelled, migrations, pending, idx, applied, fErr, err, panicking, hist, queryErr, re, recFails, hist3>>

\* m.db.Conn(ctx) fails (ctx done, or the server refuses): Migrate returns.
DbConnFails(p) ==
  /\ pc[p] = "conn"
  /\ IF cancelled[p] THEN NoFault ELSE Fault
  /\ err' = [err EXCEPT ![p] = Error("conn", <<>>)]
  /\ pc' = [pc EXCEPT ![p] = "done"]
  /\ UNCHANGED <<cfg, locks, db, calls, cancelled, migrations, conn, pending, idx, applied, fErr, panicking, hist, hist2, hist3>>

\* The ctx of a running call is cancelled.
Cancel(p) ==
  /\ Active(p)
  /\ ~cancelled[p]
  /\ Fault
  /\ cancelled' = [cancelled EXCEPT ![p] = TRUE]
  /\ waited' = [waited EXCEPT ![p] = pc[p] = "guard" /\ GuardHeld(p, conn[p])]
  /\ UNCHANGED <<cfg, locks, db, pc, calls, call, acquired, entry, ran, tracked, hist2, hist3>>

\* ------------------------------------------------------------ the guards
\* Mutant: Lock returns without waiting for the holder.
MutexFreeAlways(m) == TRUE

\* sync.Mutex: Lock returns only while nobody holds the mutex.
MutexFree(m) == mutex[m] = NoProc

\* What Migrate's err = m.guard(...) stores: nothing while a panic unwinds.
GuardResult(p, e) == IF panicking[p] THEN err[p] ELSE e

\* Mutant: Guard locks a copy of the mutexGuard (a value receiver).
MutexLockCopy(p) ==
  /\ pc[p] = "guard"
  /\ Kind(p) = "mutex"
  /\ entry' = [entry EXCEPT ![p] = flits]
  /\ pc' = [pc EXCEPT ![p] = "create"]
  /\ NoFault
  /\ UNCHANGED <<cfg, locks, db, calls, cancelled, call, acquired, ran, tracked, waited, hist2, hist3>>

\* mutexGuard.Guard: g.Lock() returns once the Migrator's mutex is free.
MutexLock(p) ==
  /\ pc[p] = "guard"
  /\ Kind(p) = "mutex"
  /\ MutexFree(migrator[p])
  /\ mutex' = [mutex EXCEPT ![migrator[p]] = p]
  /\ entry' = [entry EXCEPT ![p] = flits]
  /\ pc' = [pc EXCEPT ![p] = "create"]
  /\ NoFault
  /\ UNCHANGED <<cfg, lockOwner, lockCount, db, calls, cancelled, call, acquired, ran, tracked, waited, hist2, hist3>>

\* mutexGuard.Guard: the deferred g.Unlock(), then Migrate's err = m.guard(...).
MutexUnlock(p) ==
  /\ pc[p] = "unguard"
  /\ Kind(p) = "mutex"
  /\ mutex' = [mutex EXCEPT ![migrator[p]] = NoProc]
  /\ err' = [err EXCEPT ![p] = GuardResult(p, fErr[p])]
  /\ pc' = [pc EXCEPT ![p] = "close"]
  /\ NoFault
  /\ UNCHANGED <<cfg, lockOwner, lockCount, db, calls, cancelled, migrations, conn, pending, idx, applied, fErr, panicking, hist, hist2, hist3>>

\* GuardMySQL: SELECT GET_LOCK('flit', -1) succeeds: the lock is free or
\* already held by this session (the lock is re-entrant per session).
GetLock(p) ==
  /\ pc[p] = "guard"
  /\ Kind(p) = "mysql"
  /\ ~cancelled[p]
  /\ lockOwner \in {NoSession, conn[p]}
  /\ lockOwner' = conn[p]
  /\ lockCount' = lockCount + 1
  /\ acquired' = [acquired EXCEPT ![p] = TRUE]
  /\ entry' = [entry EXCEPT ![p] = flits]
  /\ pc' = [pc EXCEPT ![p] = "create"]
  /\ NoFault
  /\ UNCHANGED <<cfg, mutex, db, calls, cancelled, call, ran, tracked, waited, hist2, hist3>>

\* Mutant: the error of GET_LOCK is stored but the critical section still runs.
GetLockFailsProceeds(p) ==
  /\ pc[p] = "guard"
  /\ Kind(p) = "mysql"
  /\ IF cancelled[p] THEN NoFault ELSE Fault
  /\ err' = [err EXCEPT ![p] = Error("getlock", <<>>)]
  /\ pc' = [pc EXCEPT ![p] = "create"]
  /\ UNCHANGED <<cfg, locks, db, calls, cancelled, migrations, conn, pending, idx, applied, fErr, panicking, hist, hist2, hist3>>

\* GuardMySQL: GET_LOCK returns an error (ctx done while waiting, or the
\* connection is lost): GuardMySQL returns it without calling f.
GetLockFails(p) ==
  /\ pc[p] = "guard"
  /\ Kind(p) = "mysql"
  /\ IF cancelled[p] THEN NoFault ELSE Fault
  /\ err' = [err EXCEPT ![p] = Error("getlock", <<>>)]
  /\ pc' = [pc EXCEPT ![p] = "close"]
  /\ UNCHANGED <<cfg, locks, db, calls, cancelled, migrations, conn, pending, idx, applied, fErr, panicking, hist, hist2, hist3>>

\* The session's connection is lost: the server frees the locks it holds.
Released(s) == lockOwner = s /\ lockCount = 1
OwnerAfterRelease(s) == IF Released(s) THEN NoSession ELSE lockOwner
CountAfterRelease(s) == IF lockOwner = s THEN lockCount - 1 ELSE lockCount
OwnerAfterLoss(s) == IF lockOwner = s THEN NoSession ELSE lockOwner
CountAfterLoss(s) == IF lockOwner = s THEN 0 ELSE lockCount

\* GuardMySQL: the deferred SELECT RELEASE_LOCK('flit') on the same ctx,
\* then err = errors.Join(err, re), then Migrate's err = m.guard(...).
ReleaseLock(p) ==
  /\ pc[p] = "unguard"
  /\ Kind(p) = "mysql"
  /\ \/ /\ cancelled[p]       \* ctx is done: the statement is not sent
        /\ NoFault
        /\ UNCHANGED <<lockOwner, lockCount>>
        /\ re' = [re EXCEPT ![p] = Error("release", <<>>)]
     \/ /\ ~cancelled[p]
        /\ NoFault
        /\ lockOwner' = OwnerAfterRelease(conn[p])
        /\ lockCount' = CountAfterRelease(conn[p])
        /\ re' = [re EXCEPT ![p] = Nil]
     \/ /\ ~cancelled[p]      \* the connection is lost
        /\ Fault
        /\ lockOwner' = OwnerAfterLoss(conn[p])
        /\ lockCount' = CountAfterLoss(conn[p])
        /\ re' = [re EXCEPT ![p] = Error("release", <<>>)]
  /\ err' = [err EXCEPT ![p] = GuardResult(p, Join(fErr[p], re'[p]))]
  /\ pc' = [pc EXCEPT ![p] = "close"]
  /\ UNCHANGED <<cfg, mutex, db, calls, cancelled, migrations, conn, pending, idx, applied, fErr, panicking, hist, blocked, queryErr, recFails, hist3>>

\* Migrate: the deferred conn.Close(), then the return (or the panic goes on).
ConnClose(p) ==
  /\ pc[p] = "close"
  /\ conn' = [conn EXCEPT ![p] = NoSession]
  /\ pc' = [pc EXCEPT ![p] = IF panicking[p] THEN "panicked" ELSE "done"]
  /\ NoFault
  /\ UNCHANGED <<cfg, locks, db, calls, cancelled, migrations, pending, idx, applied, fErr, err, panicking, hist, hist2, hist3>>

\* --------------------------------------------------- the critical section
\* A statement fails: ctx is done (it is not sent), or the server rejects it.
StmtFails(p) == IF cancelled[p] THEN NoFault ELSE Fault

\* The critical section returns e to the guard.
Return(p, e) ==
  /\ fErr' = [fErr EXCEPT ![p] = e]
  /\ pc' = [pc EXCEPT ![p] = "unguard"]

\* CREATE TABLE IF NOT EXISTS flits
CreateTable(p) ==
  /\ pc[p] = "create"
  /\ ~cancelled[p]
  /\ tableExists' = TRUE
  /\ tracked' = [tracked EXCEPT ![p] = @ + 1]
  /\ pc' = [pc EXCEPT ![p] = "select"]
  /\ NoFault
  /\ UNCHANGED <<cfg, locks, flits, execCount, dupHits, calls, cancelled, call, acquired, entry, ran, waited, hist2, hist3>>

CreateTableFails(p) ==
  /\ pc[p] = "create"
  /\ StmtFails(p)
  /\ Return(p, Error("create", <<>>))
  /\ UNCHANGED <<cfg, locks, db, calls, cancelled, migrations, conn, pending, idx, applied, err, panicking, hist, hist2, hist3>>

\* getCompletedMigrations succeeds; the pending slice is built by ranging
\* over the migrations map and sorted by name.  No pending migration: the
\* loop body never runs and the critical section returns nil.
SelectPending(p) ==
  /\ pc[p] = "select"
  /\ ~cancelled[p]
  /\ tableExists
  /\ \E order \in Orders(PendingSet(migrations[p], flits)) :
       pending' = [pending EXCEPT ![p] = SortFunc(order)]
  /\ idx' = [idx EXCEPT ![p] = 1]
  /\ tracked' = [tracked EXCEPT ![p] = @ + 1]
  /\ IF PendingSet(migrations[p], flits) = {}
     THEN Return(p, Nil)
     ELSE /\ pc' = [pc EXCEPT ![p] = "apply"]
          /\ UNCHANGED fErr
  /\ NoFault
  /\ UNCHANGED <<cfg, locks, db, calls, cancelled, migrations, conn, applied, err, panicking, acquired, entry, ran, waited, hist2, hist3>>

\* getCompletedMigrations: QueryContext fails and the function panics; the
\* panic unwinds through the guard's deferred unlock.
SelectQueryFails(p) ==
  /\ pc[p] = "select"
  /\ StmtFails(p)
  /\ panicking' = [panicking EXCEPT ![p] = TRUE]
  /\ queryErr' = [queryErr EXCEPT ![p] = TRUE]
  /\ pc' = [pc EXCEPT ![p] = "unguard"]
  /\ UNCHANGED <<cfg, locks, db, calls, cancelled, migrations, conn, pending, idx, applied, fErr, err, hist, blocked, re, recFails, hist3>>

\* getCompletedMigrations: rows.Scan or rows.Err fails while reading the rows.
SelectScanFails(p) ==
  /\ pc[p] = "select"
  /\ ~cancelled[p]
  /\ tableExists
  /\ Fault
  /\ tracked' = [tracked EXCEPT ![p] = @ + 1]
  /\ Return(p, Error("scan", <<>>))
  /\ UNCHANGED <<cfg, locks, db, calls, cancelled, migrations, conn, pending, idx, applied, err, panicking, acquired, entry, ran, waited, hist2, hist3>>

\* Mutant: the bodies are executed in a batch; only the last is followed
\* by its INSERT.
ExecBodyBatch(p) ==
  /\ pc[p] = "apply"
  /\ ~cancelled[p]
  /\ execCount' = [execCount EXCEPT ![pending[p][idx[p]].Name] = @ + 1]
  /\ ran' = [ran EXCEPT ![p] = Append(@, pending[p][idx[p]].Name)]
  /\ IF idx[p] = Len(pending[p])
     THEN pc' = [pc EXCEPT ![p] = "record"] /\ UNCHANGED idx
     ELSE idx' = [idx EXCEPT ![p] = @ + 1] /\ UNCHANGED pc
  /\ NoFault
  /\ UNCHANGED <<cfg, locks, tableExists, flits, dupHits, calls, cancelled, migrations, conn, pending, applied, fErr, err, panicking, acquired, entry, tracked, waited, hist2, hist3>>

\* conn.ExecContext(ctx, m.SQL) succeeds.
ExecBody(p) ==
  /\ pc[p] = "apply"
  /\ ~cancelled[p]
  /\ execCount' = [execCount EXCEPT ![pending[p][idx[p]].Name] = @ + 1]
  /\ ran' = [ran EXCEPT ![p] = Append(@, pending[p][idx[p]].Name)]
  /\ pc' = [pc EXCEPT ![p] = "record"]
  /\ NoFault
  /\ UNCHANGED <<cfg, locks, tableExists, flits, dupHits, calls, cancelled, call, acquired, entry, tracked, waited, hist2, hist3>>

\* Mutant: the sum is recorded although the body failed.
ExecBodyFailsRecorded(p) ==
  /\ pc[p] = "apply"
  /\ StmtFails(p)
  /\ Return(p, Error("apply", pending[p][idx[p]].Name))
  /\ flits' = flits \cup {pending[p][idx[p]].Sum}
  /\ UNCHANGED <<cfg, locks, tableExists, execCount, dupHits, calls, cancelled, migrations, conn, pending, idx, applied, err, panicking, hist, hist2, hist3>>

\* Mutant: the name is appended to applied before the body is executed.
ExecBodyFailsApplied(p) ==
  /\ pc[p] = "apply"
  /\ StmtFails(p)
  /\ Return(p, Error("apply", pending[p][idx[p]].Name))
  /\ applied' = [applied EXCEPT ![p] = Append(@, pending[p][idx[p]].Name)]
  /\ UNCHANGED <<cfg, locks, db, calls, cancelled, migrations, conn, pending, idx, err, panicking, hist, hist2, hist3>>

\* conn.ExecContext(ctx, m.SQL) fails: the critical section returns "apply <name>".
ExecBodyFails(p) ==
  /\ pc[p] = "apply"
  /\ StmtFails(p)
  /\ Return(p, Error("apply", pending[p][idx[p]].Name))
  /\ UNCHANGED <<cfg, locks, db, calls, cancelled, migrations, conn, pending, idx, applied, err, panicking, hist, hist2, hist3>>

\* INSERT INTO flits (sum) VALUES (m.Sum) succeeds; the name is appended to
\* applied and the loop goes on, or ends and the critical section returns nil.
Insert(p) ==
  /\ pc[p] = "record"
  /\ ~cancelled[p]
  /\ pending[p][idx[p]].Sum \notin flits
  /\ flits' = flits \cup {pending[p][idx[p]].Sum}
  /\ applied' = [applied EXCEPT ![p] = Append(@, pending[p][idx[p]].Name)]
  /\ tracked' = [tracked EXCEPT ![p] = @ + 1]
  /\ idx' = [idx EXCEPT ![p] = @ + 1]
  /\ IF idx[p] = Len(pending[p])
     THEN Return(p, Nil)
     ELSE /\ pc' = [pc EXCEPT ![p] = "apply"]
          /\ UNCHANGED fErr
  /\ NoFault
  /\ inserted' = [inserted EXCEPT ![p] = Append(@, pending[p][idx[p]].Sum)]
  /\ UNCHANGED <<cfg, locks, tableExists, execCount, dupHits, calls, cancelled, migrations, conn, pending, err, panicking, acquired, entry, ran, waited, hist2, dupErr>>

\* Mutant: a duplicate is ignored (INSERT IGNORE) and the loop goes on.
InsertDuplicateSwallowed(p) ==
  /\ pc[p] = "record"
  /\ ~cancelled[p]
  /\ pending[p][idx[p]].Sum \in flits
  /\ dupHits' = 1
  /\ dupErr' = [dupErr EXCEPT ![p] = TRUE]
  /\ tracked' = [tracked EXCEPT ![p] = @ + 1]
  /\ idx' = [idx EXCEPT ![p] = @ + 1]
  /\ IF idx[p] = Len(pending[p])
     THEN Return(p, Nil)
     ELSE /\ pc' = [pc EXCEPT ![p] = "apply"]
          /\ UNCHANGED fErr
  /\ NoFault
  /\ UNCHANGED <<cfg, locks, tableExists, flits, execCount, calls, cancelled, migrations, conn, pending, applied, err, panicking, acquired, entry, ran, waited, hist2, inserted>>

\* The INSERT is rejected by the primary key: the sum is already recorded.
InsertDuplicate(p) ==
  /\ pc[p] = "record"
  /\ ~cancelled[p]
  /\ pending[p][idx[p]].Sum \in flits
  /\ dupHits' = 1
  /\ tracked' = [tracked EXCEPT ![p] = @ + 1]
  /\ Return(p, Error("record", pending[p][idx[p]].Name))
  /\ recFails' = [recFails EXCEPT ![pending[p][idx[p]].Name] = @ + 1]
  /\ dupErr' = [dupErr EXCEPT ![p] = TRUE]
  /\ NoFault
  /\ UNCHANGED <<cfg, locks, tableExists, flits, execCount, calls, cancelled, migrations, conn, pending, idx, applied, err, panicking, acquired, entry, ran, waited, blocked, queryErr, re, inserted>>

\* Mutant: the name is appended to applied before the INSERT is attempted.
InsertFailsApplied(p) ==
  /\ pc[p] = "record"
  /\ StmtFails(p)
  /\ Return(p, Error("record", pending[p][idx[p]].Name))
  /\ applied' = [applied EXCEPT ![p] = Append(@, pending[p][idx[p]].Name)]
  /\ recFails' = [recFails EXCEPT ![pending[p][idx[p]].Name] = @ + 1]
  /\ UNCHANGED <<cfg, locks, db, calls, cancelled, migrations, conn, pending, idx, err, panicking, hist, blocked, queryErr, re, hist3>>

\* The INSERT fails (ctx done, or an SQL error): the critical section
\* returns "record <name>"; the body has run and its sum is not recorded.
InsertFails(p) ==
  /\ pc[p] = "record"
  /\ StmtFails(p)
  /\ Return(p, Error("record", pending[p][idx[p]].Name))
  /\ recFails' = [recFails EXCEPT ![pending[p][idx[p]].Name] = @ + 1]
  /\ UNCHANGED <<cfg, locks, db, calls, cancelled, migrations, conn, pending, idx, applied, err, panicking, hist, blocked, queryErr, re, hist3>>

Next ==
  \E p \in Procs :
    \/ MigrateLoad(p)
    \/ MigrateLoadFails(p)
    \/ DbConn(p)
    \/ DbConnFails(p)
    \/ Cancel(p)
    \/ MutexLock(p)
    \/ MutexUnlock(p)
    \/ GetLock(p)
    \/ GetLockFails(p)
    \/ ReleaseLock(p)
    \/ ConnClose(p)
    \/ CreateTable(p)
    \/ CreateTableFails(p)
    \/ SelectPending(p)
    \/ SelectQueryFails(p)
    \/ SelectScanFails(p)
    \/ ExecBody(p)
    \/ ExecBodyFails(p)
    \/ Insert(p)
    \/ InsertDuplicate(p)
    \/ InsertFails(p)

Spec == Init /\ [][Next]_vars

TypeOK ==
  /\ flits \subseteq {Sum(n) : n \in Names}
  /\ calls \in 0..MaxCalls
  /\ faults \in 0..MaxFaults

\* ================================================================ claims
\* Every pair of callers shares a guard scope: one Migrator's mutex, or
\* GuardMySQL against the one server.
SharedAll == \A p, q \in Procs : Shared(p, q)

\* The guard has returned: the results of the call are final.
Returned(p) == pc[p] \in {"close", "done"}

Names_(s) == {s[i] : i \in DOMAIN s}
SumsOf(s) == {Sum(s[i]) : i \in DOMAIN s}

\* C1: concurrent Migrate calls that share a guard scope and meet no failure
\* execute each unit's body exactly once in total - never twice, and once by
\* the time a call that discovered the unit has returned - and no INSERT into
\* the tracking table is rejected as a duplicate.
C1_ExactlyOnce ==
  (SharedAll /\ faults = 0) =>
    /\ dupHits = 0
    /\ \A n \in Names : execCount[n] <= 1
    /\ \A p \in Procs : Returned(p) =>
         \A m \in migrations[p] : execCount[m.Name] = 1

\* C1 witness: two calls with the same three units, the second of which
\* found the guard held, have both returned; every body ran once.
C1_Witness ==
  /\ SharedAll /\ faults = 0 /\ dupHits = 0
  /\ \A p \in Procs : pc[p] = "done" /\ migrations[p] = LoadMigrations(DirSecond)
  /\ \E p \in Procs : blocked[p] /\ applied[p] = <<>>
  /\ \A n \in Names : execCount[n] = 1

\* C2: with the default guard, the critical sections of two Migrate calls of
\* one process never overlap, whichever Migrators they are called on.
C2_DefaultGuardSerializes ==
  guardKind = "mutex" =>
    \A p, q \in Procs : (p # q) => ~(InCS(p) /\ InCS(q))

\* C3: once GuardMySQL has returned after acquiring the lock, the session of
\* the call no longer holds it.
C3_LockReleased ==
  \A p \in Procs :
    (Kind(p) = "mysql" /\ acquired[p] /\ pc[p] = "close") => lockOwner # conn[p]

\* The names of the first n pending migrations of p.
FirstNames(p, n) == [i \in 1..n |-> pending[p][i].Name]

\* The critical section of p has returned because a body failed to execute.
ApplyFailed(p) ==
  /\ pc[p] \in {"unguard", "close", "done"}
  /\ fErr[p] # Nil
  /\ fErr[p][1].op = "apply"

\* e wraps every error that r wraps.
Wraps(e, r) == \A i \in DOMAIN r : \E j \in DOMAIN e : e[j] = r[i]

\* C4: fail-stop.  When the body of the k-th pending unit fails, the call has
\* executed and recorded exactly the first k-1 pending units, returns their
\* names in order with a non-nil error naming the k-th, and (callers sharing
\* a guard scope) leaves the table with the rows it found plus those k-1.
C4_FailStop ==
  \A p \in Procs : ApplyFailed(p) =>
    /\ ran[p] = FirstNames(p, idx[p] - 1)
    /\ applied[p] = FirstNames(p, idx[p] - 1)
    /\ Returned(p) =>
         /\ err[p] # Nil
         /\ Wraps(err[p], Error("apply", pending[p][idx[p]].Name))
    /\ (SharedAll /\ pc[p] = "unguard") =>
         flits = entry[p] \cup SumsOf(FirstNames(p, idx[p] - 1))

\* C4 witness: the second of three pending units failed and the call returned.
C4_Witness ==
  \E p \in Procs :
    /\ pc[p] = "done" /\ ApplyFailed(p)
    /\ Len(pending[p]) = 3 /\ idx[p] = 2
    /\ applied[p] = <<Name002>>
    /\ flits = {Sum(Name002)}

\* C5 as stated: among callers sharing a guard scope no body is ever executed
\* a second time, and once a failed critical section has ended the executed
\* units are the recorded ones - also when the failure is a record write.
C5_NeverTwice ==
  SharedAll =>
    /\ \A n \in Names : execCount[n] <= 1
    /\ \A p \in Procs : (pc[p] = "unguard" /\ fErr[p] # Nil) =>
         {n \in Names : execCount[n] > 0} = {n \in Names : Sum(n) \in flits}

\* Calls of which the body of n has executed and the INSERT is still to come.
Recording(n) == {p \in Procs : pc[p] = "record" /\ pending[p][idx[p]].Name = n}

\* Each body has been executed once if its sum is recorded, once more for
\* every record write of it that failed, and once more while a call is
\* between its body and its INSERT.
Balance ==
  \A n \in Names :
    execCount[n] = (IF Sum(n) \in flits THEN 1 ELSE 0) + recFails[n] + Cardinality(Recording(n))

\* C5 amended: among callers sharing a guard scope, no step executes the body
\* of a unit whose sum is recorded, and every step keeps the balance: bodies
\* executed = sums recorded + failed record writes (+ units being recorded).
\* So a failing body never leads to a second execution, and the executed
\* units are the recorded ones unless a record write failed.
C5_ExecutedVsRecorded ==
  [][SharedAll =>
      /\ \A n \in Names : (Sum(n) \in flits) => execCount'[n] = execCount[n]
      /\ Balance']_vars

\* C5 witness: a call stopped on the failing body of "01" after recording
\* "002"; the re-run skipped "002", applied the rest, and no body ran twice.
C5_Witness ==
  /\ SharedAll /\ faults = 1
  /\ \A n \in Names : recFails[n] = 0 /\ execCount[n] = 1
  /\ \E p \in Procs :
       /\ pc[p] = "done" /\ err[p] = Nil
       /\ entry[p] = {Sum(Name002)}
       /\ applied[p] = <<Name01, Name1>>

\* C6: among callers sharing a guard scope, a call that succeeds returns
\* exactly the discovered units whose sum no earlier call had recorded.
C6_ReturnsUnrecorded ==
  SharedAll =>
    \A p \in Procs : (Returned(p) /\ err[p] = Nil /\ ~panicking[p]) =>
      /\ Names_(applied[p]) = {m.Name : m \in {x \in migrations[p] : x.Sum \notin entry[p]}}
      /\ Len(applied[p]) = Cardinality(Names_(applied[p]))

\* C6 witness: after "01" was recorded, a call with the superset of three
\* units returned only the two added ones.
C6_Witness ==
  /\ SharedAll
  /\ \E p \in Procs :
       /\ pc[p] = "done" /\ err[p] = Nil
       /\ migrations[p] = LoadMigrations(DirSecond)
       /\ entry[p] = {Sum(Name01)}
       /\ applied[p] = <<Name002, Name1>>

\* Byte-wise lexicographic order of the names: "002" < "01" < "1".
Rank(n) == IF n = Name002 THEN 1 ELSE IF n = Name01 THEN 2 ELSE 3
Ascending(s) == \A i, j \in DOMAIN s : (i < j) => Rank(s[i]) < Rank(s[j])

\* C7: in every call the bodies are executed, and the names returned, in
\* ascending byte-wise lexicographic order of name.
C7_NameOrder ==
  \A p \in Procs : Ascending(ran[p]) /\ Ascending(applied[p])

\* C7 witness: a call applied all three units: "002", then "01", then "1".
C7_Witness ==
  \E p \in Procs : pc[p] = "done" /\ applied[p] = <<Name002, Name01, Name1>>

\* C8: when the SELECT of the applied sums fails, Migrate returns a non-nil
\* error, having executed no body and having left the guard.
C8_QueryErrorReturned ==
  \A p \in Procs : (queryErr[p] /\ pc[p] \in {"close", "done", "panicked"}) =>
    /\ pc[p] # "panicked" /\ ~panicking[p]
    /\ err[p] # Nil
    /\ ran[p] = <<>>
    /\ mutex[migrator[p]] # p

\* C9: a call whose ctx is cancelled while it waits to enter the guard can
\* return at once, whoever holds the guard, and a call cancelled while it
\* waited has executed no body and no statement on the tracking table.
C9_CancelUnblocks ==
  \A p \in Procs :
    /\ (pc[p] = "guard" /\ waited[p]) =>
         ENABLED (MutexLock(p) \/ GetLock(p) \/ GetLockFails(p))
    /\ (waited[p] /\ Returned(p)) => (ran[p] = <<>> /\ tracked[p] = 0)

\* GuardMySQL has returned to Migrate after running the critical section.
GuardReturned(p) == Kind(p) = "mysql" /\ acquired[p] /\ Returned(p) /\ ~panicking[p]

\* C10: the error GuardMySQL returns wraps the error of the critical section
\* and the error of RELEASE_LOCK, and is nil only when both are nil.
C10_NoMasking ==
  \A p \in Procs : GuardReturned(p) =>
    /\ Wraps(err[p], fErr[p])
    /\ Wraps(err[p], re[p])
    /\ (err[p] = Nil) <=> (fErr[p] = Nil /\ re[p] = Nil)

\* C10 witness: the critical section failed and so did RELEASE_LOCK.
C10_Witness ==
  \E p \in Procs :
    /\ GuardReturned(p)
    /\ fErr[p] # Nil /\ re[p] # Nil
    /\ Len(err[p]) = 2

\* The call of p ended before its critical section: discovery, connection
\* acquisition or guard entry failed.
FailedEarly(p) == err[p] # Nil /\ err[p][1].op \in {"load", "conn", "getlock"}

\* C11: a failure of discovery, of connection acquisition or of guard entry
\* ends the call with a non-nil error and no names; the critical section is
\* not run: no statement on the tracking table, no body, and for the first
\* two no session was taken and the guard was never entered.
C11_EarlyFailureTouchesNothing ==
  \A p \in Procs : FailedEarly(p) =>
    /\ pc[p] \in {"close", "done"}
    /\ applied[p] = <<>> /\ ran[p] = <<>> /\ inserted[p] = <<>>
    /\ tracked[p] = 0
    /\ ~acquired[p] /\ mutex[migrator[p]] # p
    /\ (err[p][1].op \in {"load", "conn"}) => conn[p] = NoSession

\* C11 witness: GET_LOCK failed for a call cancelled while another call held
\* the lock; the call returned the error and touched nothing.
C11_Witness ==
  \E p \in Procs :
    /\ pc[p] = "done" /\ waited[p]
    /\ err[p] = Error("getlock", <<>>)
    /\ applied[p] = <<>>

\* C12: an INSERT rejected by the primary key ends the loop of its call at
\* that unit, and the call returns a non-nil error naming it.
C12_DuplicatePropagates ==
  \A p \in Procs : dupErr[p] =>
    /\ pc[p] \in {"unguard", "close", "done"}
    /\ idx[p] \in DOMAIN pending[p]
    /\ fErr[p] = Error("record", pending[p][idx[p]].Name)
    /\ ran[p] = FirstNames(p, idx[p])
    /\ applied[p] = FirstNames(p, idx[p] - 1)
    /\ Returned(p) => Wraps(err[p], Error("record", pending[p][idx[p]].Name))

\* C12 witness: two Migrators with their own mutexes raced with no failure
\* injected: a body ran twice and the second INSERT was rejected and returned.
C12_Witness ==
  /\ guardKind = "mutex" /\ ~SharedAll /\ faults = 0
  /\ \E n \in Names : execCount[n] = 2
  /\ \E p \in Procs : pc[p] = "done" /\ dupErr[p] /\ err[p] # Nil

\* C13: among callers sharing a guard scope, whether a call executes a unit
\* depends on its name only: a discovered unit whose name's sum was recorded
\* is not executed, whatever its body is now, and a call that succeeds has
\* executed every discovered unit whose name's sum was not, whatever its body.
C13_PendingByNameOnly ==
  SharedAll =>
    \A p \in Procs : \A m \in migrations[p] :
      /\ (Sum(m.Name) \in entry[p]) => m.Name \notin Names_(ran[p])
      /\ (Returned(p) /\ err[p] = Nil /\ ~panicking[p] /\ Sum(m.Name) \notin entry[p])
           => m.Name \in Names_(ran[p])

\* C13 witness: "01" was applied from the first directory; a call on the
\* second, where "01" has another body and "002" has the body "01" had,
\* left "01" alone and executed "002".
C13_Witness ==
  /\ SharedAll
  /\ DirSecond[Name01] # DirFirst[Name01] /\ DirSecond[Name002] = DirFirst[Name01]
  /\ \E p \in Procs :
       /\ pc[p] = "done" /\ err[p] = Nil
       /\ migrations[p] = LoadMigrations(DirSecond)
       /\ entry[p] = {Sum(Name01)}
       /\ ran[p] = <<Name002, Name1>>
  /\ execCount[Name01] = 1

\* C14: in every configuration and interleaving, no step removes a row of
\* the tracking table (or the table), and every row is the sum of a unit
\* whose body has executed successfully.
C14_RecordsOnlyGrow ==
  [][/\ flits \subseteq flits'
     /\ tableExists => tableExists'
     /\ \A n \in Names : (Sum(n) \in flits') => execCount'[n] >= 1]_vars

\* C14 witness: a call that failed after recording "002" has returned and
\* a later call has added the other two rows to the one it left.
C14_Witness ==
  /\ faults = 1
  /\ flits = {Sum(n) : n \in Names}
  /\ \E p \in Procs :
       /\ pc[p] = "done" /\ err[p] = Nil
       /\ entry[p] = {Sum(Name002)}
       /\ inserted[p] = <<Sum(Name01), Sum(Name1)>>

\* The call of p is inside its guard.
HoldsGuard(p) ==
  IF Kind(p) = "mutex" THEN mutex[migrator[p]] = p
  ELSE conn[p] # NoSession /\ lockOwner = conn[p]

\* A step in which a statement of p ran: on the tracking table, or a body.
Issues(p) ==
  \/ tracked'[p] > tracked[p]
  \/ Len(ran'[p]) > Len(ran[p])
  \/ Len(inserted'[p]) > Len(inserted[p])

\* C15: a call is inside its guard whenever one of its statements runs and
\* for as long as it is in the critical section, and what it finds pending
\* contains no sum that was recorded when it entered the guard.
C15_StatementsInsideGuard ==
  [][\A p \in Procs :
       /\ Issues(p) => (HoldsGuard(p) /\ HoldsGuard(p)')
       /\ InCS(p)' => HoldsGuard(p)'
       /\ \A i \in DOMAIN pending'[p] : pending'[p][i].Sum \notin entry'[p]]_vars

\* C15 witness: of two calls, the one that found the guard held read the
\* table after entering: it saw the three rows of the holder, applied nothing.
C15_Witness ==
  /\ calls = 2
  /\ \E p \in Procs :
       /\ blocked[p] /\ pc[p] = "done" /\ err[p] = Nil
       /\ migrations[p] = LoadMigrations(DirSecond)
       /\ entry[p] = {Sum(n) : n \in Names}
       /\ tracked[p] = 2 /\ ran[p] = <<>>

\* The last element of a non-empty sequence.
Last(s) == s[Len(s)]

\* C16: within a call the units are handled one after another.  The sums
\* inserted are those of the bodies executed, in the same order, with at
\* most one body not yet recorded, and none when the next body is about to
\* start; after a body the call does nothing but the INSERT of that unit: it
\* leaves that point only with the row written or with the record error.
C16_OneUnitAtATime ==
  [][\A p \in Procs :
       /\ Len(ran'[p]) - Len(inserted'[p]) \in {0, 1}
       /\ \A i \in DOMAIN inserted'[p] : inserted'[p][i] = Sum(ran'[p][i])
       /\ (pc'[p] = "apply") => Len(ran'[p]) = Len(inserted'[p])
       /\ (Len(ran'[p]) > Len(ran[p])) =>
            (pc'[p] = "record" /\ pending'[p][idx'[p]].Name = Last(ran'[p]))
       /\ (pc[p] = "record" /\ pc'[p] # "record") =>
            \/ inserted'[p] = Append(inserted[p], Sum(Last(ran[p])))
            \/ fErr'[p] = Error("record", Last(ran[p]))]_vars

\* C16 witness: the second body of a call has run and its INSERT is next;
\* the first unit is recorded.
C16_Witness ==
  \E p \in Procs :
    /\ pc[p] = "record"
    /\ ran[p] = <<Name002, Name01>>
    /\ inserted[p] = <<Sum(Name002)>>

\* The sums of a sequence of names.
SumSeq(s) == [i \in DOMAIN s |-> Sum(s[i])]

\* The critical section of p has returned because a record write failed.
RecordFailed(p) ==
  /\ pc[p] \in {"unguard", "close", "done"}
  /\ fErr[p] # Nil
  /\ fErr[p][1].op = "record"

\* C17: the names of a call are the units whose sum it inserted, in the
\* order of insertion, at every moment and so when it returns, with or
\* without an error; a unit whose body ran and whose record write failed is
\* not among them.
C17_AppliedAreInserted ==
  \A p \in Procs :
    /\ SumSeq(applied[p]) = inserted[p]
    /\ RecordFailed(p) =>
         /\ fErr[p][1].name \in Names_(ran[p])
         /\ fErr[p][1].name \notin Names_(applied[p])
         /\ Returned(p) => err[p] # Nil

\* C17 witness: a call returned an error and the one name "002": the record
\* write of "01" failed after its body ran.
C17_Witness ==
  \E p \in Procs :
    /\ pc[p] = "done" /\ RecordFailed(p) /\ err[p] # Nil
    /\ ran[p] = <<Name002, Name01>>
    /\ applied[p] = <<Name002>>
    /\ inserted[p] = <<Sum(Name002)>>

\* The steps of the running call of p: every statement terminates and the
\* scheduler lets the call go on whenever it can.
Progress(p) ==
  \/ DbConn(p) \/ DbConnFails(p)
  \/ MutexLock(p) \/ MutexUnlock(p)
  \/ GetLock(p) \/ GetLockFails(p) \/ ReleaseLock(p)
  \/ ConnClose(p)
  \/ CreateTable(p) \/ CreateTableFails(p)
  \/ SelectPending(p) \/ SelectQueryFails(p) \/ SelectScanFails(p)
  \/ ExecBody(p) \/ ExecBodyFails(p)
  \/ Insert(p) \/ InsertDuplicate(p) \/ InsertFails(p)

\* Spec with fair scheduling of the running calls.
FairSpec == Spec /\ \A p \in Procs : WF_vars(Progress(p))

\* C18: under fair scheduling every call waiting at guard entry gets past
\* it and ends, whatever happened to earlier holders of the guard.
C18_NoLockout ==
  \A p \in Procs : (pc[p] = "guard") ~> (pc[p] \in {"done", "panicked"})

====
